---- MODULE Spec2Model ----
(***************************************************************************)
(* A model of the semantic core of the quokko lisp example: the list-type  *)
(* unification and type inference of examples/lisp/type_system/            *)
(* type_checker.py and the emitter and program orchestrator of             *)
(* examples/lisp/compiler.py.                                              *)
(*                                                                         *)
(* Every function of the core is a pure function of its arguments, so the  *)
(* state machine is a single call: Init draws the function to call and its *)
(* arguments from bounded sets, and one action per function applies it and *)
(* stores what the call produced (a returned value or a raised exception). *)
(***************************************************************************)
EXTENDS Integers, Sequences, FiniteSets, TLC

\* Bounds of the model.
MaxTypeDepth == 2
MaxNsDepth == 1
MaxArgs == 3
MaxProgram == 2

(***************************************************************************)
(* Type descriptors (examples/lisp/type_system/types.py).  A descriptor is *)
(* the sequence of its constructors, outermost first: ListType and         *)
(* PossibleEmptyList hold exactly one element type, so                     *)
(* List(PossibleEmptyList(Number)) is <<"List", "PossibleEmptyList",       *)
(* "Number">>.  Equality of sequences is the structural equality of the    *)
(* descriptors.                                                            *)
(***************************************************************************)
PrimitiveNames == {"String", "Bool", "Number"}

PrimitiveType(n) == <<n>>

EmptyList == <<"EmptyList">>

UnrecognizedType == <<"Unrecognized">>

ListType(e) == <<"List">> \o e

PossibleEmptyList(e) == <<"PossibleEmptyList">> \o e

element(t) == Tail(t)

\* The absence of a type (Python's missing dict key, or no value returned).
NoType == <<>>

is_empty_list(t) == t = EmptyList

is_list(t) == t # NoType /\ Head(t) = "List"

is_possibly_empty(t) == t # NoType /\ Head(t) = "PossibleEmptyList"

RECURSIVE TypesOfDepth(_)
TypesOfDepth(d) ==
    IF d = 0
    THEN {PrimitiveType(n) : n \in PrimitiveNames} \cup {EmptyList}
    ELSE LET S == TypesOfDepth(d - 1)
         IN  S \cup {ListType(e) : e \in S} \cup {PossibleEmptyList(e) : e \in S}

(***************************************************************************)
(* Results.  A function of the type checker returns a pair (success flag,  *)
(* type or message), returns None by falling off its end (`pair` is FALSE) *)
(* or raises: `raised` names the exception ("" when the call returned).  A *)
(* message is the text of its f-string and the values interpolated into    *)
(* it: type names are the descriptors.                                     *)
(***************************************************************************)
Msg(text, a, b, pos) == [text |-> text, a |-> a, b |-> b, pos |-> pos]

NoMsg == Msg("", <<>>, <<>>, 0)

Ok(t) == [raised |-> "", pair |-> TRUE, ok |-> TRUE, type |-> t, msg |-> NoMsg]

Err(m) == [raised |-> "", pair |-> TRUE, ok |-> FALSE, type |-> NoType, msg |-> m]

ErrType(t) == [raised |-> "", pair |-> TRUE, ok |-> FALSE, type |-> t, msg |-> NoMsg]

ReturnedNone ==
    [raised |-> "", pair |-> FALSE, ok |-> FALSE, type |-> NoType, msg |-> NoMsg]

Raise(e) == [raised |-> e, pair |-> FALSE, ok |-> FALSE, type |-> NoType, msg |-> NoMsg]

\* `result, value = call(...)`: unpacking None raises TypeError.
Unpack(r) == IF r.raised = "" /\ ~r.pair THEN Raise("TypeError") ELSE r

(***************************************************************************)
(* List-type unification.                                                  *)
(***************************************************************************)
RECURSIVE infer_element_types(_, _)

inner(t1, t2) ==
    IF is_list(t1) /\ is_list(t2)
    THEN LET r == infer_element_types(element(t1), element(t2))
         IN  IF ~r.ok
             THEN Err(Msg("Incompatible list types", t1, t2, 0))
             ELSE Ok(ListType(r.type))
    ELSE IF is_list(t1) /\ is_empty_list(t2)
    THEN Ok(PossibleEmptyList(element(t1)))
    ELSE IF is_list(t1) /\ is_possibly_empty(t2)
    THEN LET r == infer_element_types(element(t1), element(t2))
         IN  IF ~r.ok
             THEN Err(Msg("Incompatible list types", t1, t2, 0))
             ELSE Ok(PossibleEmptyList(element(t1)))
    ELSE Err(NoMsg)

\* The unification with the swapped attempt left out.
infer_element_types_one_order(list1, list2) ==
    LET r == inner(list1, list2)
    IN  IF ~r.ok
        THEN IF list1 = list2
             THEN Ok(list1)
             ELSE Err(Msg("Incompatible list types", list1, list2, 0))
        ELSE Ok(r.type)

infer_element_types(list1, list2) ==
    LET r1 == inner(list2, list1)
    IN  IF ~r1.ok
        THEN LET r2 == inner(list1, list2)
             IN  IF ~r2.ok
                 THEN IF list1 = list2
                      THEN Ok(list1)
                      ELSE Err(Msg("Incompatible list types", list1, list2, 0))
                 ELSE Ok(r2.type)
        ELSE Ok(r1.type)

(***************************************************************************)
(* The typed AST (examples/lisp/constructs.py): an Atom holds a value, a   *)
(* Form an ordered sequence of nodes.  `vtype` is the Python type of an    *)
(* Atom's value: "str" for token text, "num" for an int or a float, and    *)
(* "other" for anything else.                                              *)
(***************************************************************************)
Atom(v) == [kind |-> "Atom", vtype |-> "str", value |-> v, elements |-> <<>>]

NumAtom(v) == [kind |-> "Atom", vtype |-> "num", value |-> v, elements |-> <<>>]

RawAtom == [kind |-> "Atom", vtype |-> "other", value |-> "", elements |-> <<>>]

Form(es) == [kind |-> "Form", vtype |-> "", value |-> "", elements |-> es]

\* Python's 0-based elements[i], and whether the index exists.
Elem(elements, i) == elements[i + 1]

HasIndex(elements, i) == i < Len(elements)

builtin_functions ==
    {"import", "print", "+", "-", "*", "/", "not", "and", "or", "<", ">",
     "<=", ">=", "=", "list", "first", "rest", "++", "map", "filter",
     "lambda", "if"}

\* Token texts of the model, by what Python's tests make of them.
StringLiterals == {"\"a\"", "\"b\"", "\"\""}

BoolLiterals == {"true", "false"}

FloatTexts == {"1", "2", "3", "2.5"}

IntTexts == {"1", "2", "3"}

is_string_literal(atom) == atom.value \in StringLiterals

is_bool_literal(atom) == atom.value = "true" \/ atom.value = "false"

is_numeric_literal(atom) == atom.vtype = "num"

(***************************************************************************)
(* A Python dict is the sequence of its entries in insertion order:        *)
(* setting a key that is present keeps its place and replaces its value.   *)
(***************************************************************************)
DictHas(d, k) == \E i \in 1..Len(d) : d[i].key = k

DictSet(d, k, v) ==
    IF DictHas(d, k)
    THEN [i \in 1..Len(d) |-> IF d[i].key = k THEN [key |-> k, value |-> v] ELSE d[i]]
    ELSE Append(d, [key |-> k, value |-> v])

DictGet(d, k) == d[CHOOSE i \in 1..Len(d) : d[i].key = k].value

\* {**d, **{key: value for the entries from the i-th on}}
RECURSIVE DictUpdate(_, _, _)
DictUpdate(d, entries, i) ==
    IF i > Len(entries)
    THEN d
    ELSE DictUpdate(DictSet(d, entries[i].key, entries[i].value), entries, i + 1)

\* `atom.value in namespace`: the keys of a namespace are names, so only a
\* str value can be one of them.
InNamespace(atom, namespace) ==
    atom.vtype = "str" /\ DictHas(namespace, atom.value)

(***************************************************************************)
(* infer_type.                                                             *)
(***************************************************************************)
infer_type_atom(atom, namespace) ==
    IF atom.vtype = "str"
    THEN IF is_string_literal(atom)
         THEN Ok(PrimitiveType("String"))
         ELSE IF is_bool_literal(atom)
         THEN Ok(PrimitiveType("Bool"))
         ELSE IF InNamespace(atom, namespace)
         THEN Ok(DictGet(namespace, atom.value))
         ELSE IF atom.value \in FloatTexts
         THEN Ok(PrimitiveType("Number"))
         ELSE IF atom.value \in IntTexts
         THEN Ok(PrimitiveType("Number"))
         ELSE Err(Msg("Cannot infer type of", <<atom.value>>, <<>>, 0))
    ELSE IF is_numeric_literal(atom)
    THEN Ok(PrimitiveType("Number"))
    ELSE ErrType(UnrecognizedType)

RECURSIVE infer_type(_, _)

\* The loop of the "list" case from index i on, element_type being the type
\* folded so far.
RECURSIVE infer_list_loop(_, _, _, _)

\* The loop keeping the unified list type, not its element, as the type
\* folded so far.
infer_list_loop_keeps_list(elements, i, element_type, namespace) ==
    IF i >= Len(elements)
    THEN Ok(ListType(element_type))
    ELSE LET r == Unpack(infer_type(Elem(elements, i), namespace))
         IN  IF r.raised # "" \/ ~r.ok
             THEN r
             ELSE LET u == infer_element_types(ListType(element_type),
                                               ListType(r.type))
                  IN  IF ~u.ok
                      THEN Err(Msg("List i-th element has type which is not compatible with inferred type",
                                   r.type, element_type, i - 1))
                      ELSE infer_list_loop(elements, i + 1, u.type, namespace)

infer_list_loop(elements, i, element_type, namespace) ==
    IF i >= Len(elements)
    THEN Ok(ListType(element_type))
    ELSE LET r == Unpack(infer_type(Elem(elements, i), namespace))
         IN  IF r.raised # "" \/ ~r.ok
             THEN r
             ELSE LET u == infer_element_types(ListType(element_type),
                                               ListType(r.type))
                  IN  IF ~u.ok
                      THEN Err(Msg("List i-th element has type which is not compatible with inferred type",
                                   r.type, element_type, i - 1))
                      ELSE infer_list_loop(elements, i + 1, element(u.type),
                                           namespace)

infer_list(elements, namespace) ==
    IF Len(elements) = 1
    THEN Ok(EmptyList)
    ELSE LET r == Unpack(infer_type(Elem(elements, 1), namespace))
         IN  IF r.raised # "" \/ ~r.ok
             THEN r
             ELSE infer_list_loop(elements, 2, r.type, namespace)

infer_append(elements, namespace) ==
    IF ~HasIndex(elements, 1)
    THEN Raise("IndexError")
    ELSE LET re == Unpack(infer_type(Elem(elements, 1), namespace))
         IN  IF re.raised # ""
             THEN re
             ELSE IF ~HasIndex(elements, 2)
             THEN Raise("IndexError")
             ELSE LET rl == Unpack(infer_type(Elem(elements, 2), namespace))
                  IN  IF rl.raised # ""
                      THEN rl
                      ELSE IF ~re.ok
                      THEN re
                      ELSE IF ~rl.ok
                      THEN rl
                      ELSE IF is_empty_list(rl.type)
                      THEN Ok(ListType(re.type))
                      ELSE LET u == infer_element_types(ListType(re.type), rl.type)
                           IN  IF (is_list(rl.type) \/ is_possibly_empty(rl.type)) /\ u.ok
                               THEN Ok(u.type)
                               ELSE Err(Msg("Cannot append element of type to",
                                            re.type, rl.type, 0))

\* The accessor taking a possibly-empty list for a non-empty one.
infer_first_possibly_empty(elements, namespace) ==
    IF ~HasIndex(elements, 1)
    THEN Raise("IndexError")
    ELSE LET r == Unpack(infer_type(Elem(elements, 1), namespace))
         IN  IF r.raised # "" \/ ~r.ok
             THEN r
             ELSE IF is_list(r.type) \/ is_possibly_empty(r.type)
             THEN Ok(element(r.type))
             ELSE Err(Msg("'first' expected a non-empty List type but got",
                          r.type, <<>>, 0))

infer_first(elements, namespace) ==
    IF ~HasIndex(elements, 1)
    THEN Raise("IndexError")
    ELSE LET r == Unpack(infer_type(Elem(elements, 1), namespace))
         IN  IF r.raised # "" \/ ~r.ok
             THEN r
             ELSE IF is_list(r.type)
             THEN Ok(element(r.type))
             ELSE Err(Msg("'first' expected a non-empty List type but got",
                          r.type, <<>>, 0))

infer_rest(elements, namespace) ==
    IF ~HasIndex(elements, 1)
    THEN Raise("IndexError")
    ELSE LET r == Unpack(infer_type(Elem(elements, 1), namespace))
         IN  IF r.raised # "" \/ ~r.ok
             THEN r
             ELSE IF is_list(r.type)
             THEN Ok(PossibleEmptyList(element(r.type)))
             ELSE Err(Msg("'rest' expected a non-empty List type but got",
                          r.type, <<>>, 0))

maybe_empty_predicate(t1, t2) ==
    is_list(t1) /\ (is_empty_list(t2) \/ is_possibly_empty(t2))

infer_if_branches(true_branch_type, false_branch_type) ==
    IF true_branch_type # false_branch_type
    THEN IF \/ maybe_empty_predicate(true_branch_type, false_branch_type)
            \/ maybe_empty_predicate(false_branch_type, true_branch_type)
         THEN Ok(PossibleEmptyList(IF is_list(true_branch_type)
                                   THEN element(true_branch_type)
                                   ELSE element(false_branch_type)))
         ELSE Err(Msg("Incompatible types in if branches",
                      true_branch_type, false_branch_type, 0))
    ELSE Ok(true_branch_type)

infer_if(elements, namespace) ==
    IF ~HasIndex(elements, 1)
    THEN Raise("IndexError")
    ELSE LET rc == Unpack(infer_type(Elem(elements, 1), namespace))
         IN  IF rc.raised # "" \/ ~rc.ok
             THEN rc
             ELSE IF rc.type # PrimitiveType("Bool")
             THEN Err(Msg("Expected if condition to have type 'bool' but got",
                          rc.type, <<>>, 0))
             ELSE IF ~HasIndex(elements, 2)
             THEN Raise("IndexError")
             ELSE LET rt == Unpack(infer_type(Elem(elements, 2), namespace))
                  IN  IF rt.raised # "" \/ ~rt.ok
                      THEN rt
                      ELSE IF ~HasIndex(elements, 3)
                      THEN Raise("IndexError")
                      ELSE LET rf == Unpack(infer_type(Elem(elements, 3), namespace))
                           IN  IF rf.raised # "" \/ ~rf.ok
                               THEN rf
                               ELSE infer_if_branches(rt.type, rf.type)

infer_type_form(form, namespace) ==
    LET elements == form.elements
    IN  IF ~HasIndex(elements, 0)
        THEN Raise("IndexError")
        ELSE LET first_element == Elem(elements, 0)
                 name == first_element.value
             IN  IF first_element.kind = "Atom"
                 THEN IF InNamespace(first_element, namespace)
                      THEN Ok(DictGet(namespace, name))
                      ELSE IF first_element.vtype = "str" /\ name \in builtin_functions
                      THEN CASE name = "list" -> infer_list(elements, namespace)
                             [] name = "++" -> infer_append(elements, namespace)
                             [] name = "first" -> infer_first(elements, namespace)
                             [] name = "rest" -> infer_rest(elements, namespace)
                             [] name = "if" -> infer_if(elements, namespace)
                             [] OTHER -> Err(Msg("Unrecognized form, cannot infer type",
                                                 <<name>>, <<>>, 0))
                      ELSE Err(Msg("Unrecognized form, cannot infer type",
                                   <<name>>, <<>>, 0))
                 ELSE ReturnedNone

infer_type(obj, namespace) ==
    IF obj.kind = "Atom"
    THEN infer_type_atom(obj, namespace)
    ELSE infer_type_form(obj, namespace)

(***************************************************************************)
(* The emitter (examples/lisp/compiler.py).  Emitted text is the sequence  *)
(* of the pieces the f-strings and joins put together.  A call returns     *)
(* text or raises: `raised` names the exception, and for the arity         *)
(* TypeErrors `op`, `expected` and `actual` are what the message           *)
(* interpolates.                                                           *)
(***************************************************************************)
Emitted(text) ==
    [raised |-> "", op |-> "", expected |-> 0, actual |-> 0, text |-> text]

RaiseArity(op, expected, actual) ==
    [raised |-> "TypeError", op |-> op, expected |-> expected,
     actual |-> actual, text |-> <<>>]

RaiseOther(e) ==
    [raised |-> e, op |-> "", expected |-> 0, actual |-> 0, text |-> <<>>]

\* pre + r + post, for r the result of a nested call.
Wrap(pre, r, post) ==
    IF r.raised # "" THEN r ELSE Emitted(pre \o r.text \o post)

\* ' ' * n
Spaces(n) == [i \in 1..n |-> " "]

RECURSIVE compile_obj(_, _)

\* delim.join([compile_obj(element) for element in elements]), from the
\* i-th element on; delim is the sequence of the delimiter's pieces.
RECURSIVE create_body_from(_, _, _)
create_body_from(delim, elements, i) ==
    IF i > Len(elements)
    THEN Emitted(<<>>)
    ELSE LET r == compile_obj(elements[i], 0)
         IN  IF r.raised # ""
             THEN r
             ELSE LET others == create_body_from(delim, elements, i + 1)
                  IN  Wrap(r.text \o (IF i < Len(elements) THEN delim ELSE <<>>),
                           others, <<>>)

create_body(delim, elements) == create_body_from(delim, elements, 1)

\* islice(form.elements, 1, len(form.elements))
Arguments(form) == Tail(form.elements)

create_op(op, form, n_args) ==
    LET args == Len(form.elements) - 1
    IN  IF args # n_args
        THEN RaiseArity(op, n_args, args)
        ELSE create_body(<<" ", op, " ">>, Arguments(form))

\* The arity test shared by "not", "=", "first", "rest", "map", "filter" and
\* "if": n_args != expected raises, naming the operator and both counts.
WithArity(op, form, expected, emitted) ==
    LET n_args == Len(form.elements) - 1
    IN  IF n_args # expected
        THEN RaiseArity(op, expected, n_args)
        ELSE emitted

compile_map_filter(function_name, form) ==
    LET func == compile_obj(Elem(form.elements, 1), 0)
        collection == compile_obj(Elem(form.elements, 2), 0)
    IN  IF func.raised # ""
        THEN func
        ELSE Wrap(<<"list(", function_name, "(">> \o func.text \o <<", ">>,
                  collection, <<"))">>)

compile_lambda(form) ==
    IF ~HasIndex(form.elements, 1)
    THEN RaiseOther("IndexError")
    ELSE LET args == Elem(form.elements, 1)
             params == IF args.kind = "Atom"
                       THEN compile_obj(args, 0)
                       ELSE create_body(<<", ">>, args.elements)
         IN  IF params.raised # ""
             THEN params
             ELSE IF ~HasIndex(form.elements, 2)
             THEN RaiseOther("IndexError")
             ELSE Wrap(<<"lambda ">> \o params.text \o <<": ">>,
                       compile_obj(Elem(form.elements, 2), 0), <<>>)

compile_if(form) ==
    LET condition == compile_obj(Elem(form.elements, 1), 0)
        if_branch == compile_obj(Elem(form.elements, 2), 0)
        else_branch == compile_obj(Elem(form.elements, 3), 0)
    IN  IF condition.raised # ""
        THEN condition
        ELSE IF if_branch.raised # ""
        THEN if_branch
        ELSE Wrap(<<"(">> \o if_branch.text \o <<") if (">> \o condition.text
                      \o <<") else (">>,
                  else_branch, <<")">>)

compile_import(form) ==
    IF ~HasIndex(form.elements, 1)
    THEN RaiseOther("IndexError")
    ELSE IF Elem(form.elements, 1).kind # "Atom"
    THEN RaiseOther("AttributeError")
    ELSE Emitted(<<"import ", Elem(form.elements, 1).value>>)

compile_builtin(form) ==
    LET function_name == Elem(form.elements, 0).value
        body(delim) == create_body(delim, Arguments(form))
    IN  CASE function_name = "import" -> compile_import(form)
          [] function_name = "print" -> Wrap(<<"print(">>, body(<<", ">>), <<")">>)
          [] function_name = "+" -> body(<<" + ">>)
          [] function_name = "-" -> body(<<" - ">>)
          [] function_name = "*" -> body(<<" * ">>)
          [] function_name = "/" -> body(<<" / ">>)
          [] function_name = "not" ->
                WithArity("not", form, 1, Wrap(<<" not ">>, body(<<>>), <<>>))
          [] function_name \in {"and", "or"} -> body(<<" ", function_name, " ">>)
          [] function_name \in {"<", ">", "<=", ">="} ->
                create_op(function_name, form, 2)
          [] function_name = "=" -> WithArity("=", form, 2, body(<<" == ">>))
          [] function_name = "list" ->
                Wrap(<<"list_create(">>, body(<<", ">>), <<")">>)
          [] function_name = "first" ->
                WithArity("first", form, 1, Wrap(<<>>, body(<<>>), <<"[0]">>))
          [] function_name = "rest" ->
                WithArity("rest", form, 1, Wrap(<<>>, body(<<>>), <<"[1:]">>))
          [] function_name = "++" ->
                Wrap(<<"list_append(">>, body(<<", ">>), <<")">>)
          [] function_name \in {"map", "filter"} ->
                WithArity(function_name, form, 2,
                          compile_map_filter(function_name, form))
          [] function_name = "lambda" -> compile_lambda(form)
          [] function_name = "if" -> WithArity("if", form, 3, compile_if(form))
          [] OTHER -> Emitted(<<>>)

compile_obj_atom(obj, indent) ==
    LET value == IF obj.value = "true" THEN "True"
                 ELSE IF obj.value = "false" THEN "False"
                 ELSE obj.value
    IN  Emitted(Spaces(indent * 4) \o <<value>>)

compile_obj_form(obj, indent) ==
    IF obj.elements = <<>>
    THEN Emitted(<<>>)
    ELSE IF Elem(obj.elements, 0).kind # "Atom"
    THEN RaiseOther("SyntaxError")
    ELSE LET form_name == Elem(obj.elements, 0).value
         IN  IF form_name \in builtin_functions
             THEN Wrap(Spaces(indent * 4), compile_builtin(obj), <<>>)
             ELSE Wrap(Spaces(indent * 4) \o <<form_name, "(">>,
                       create_body(<<",">>, Arguments(obj)), <<")">>)

compile_obj(obj, indent) ==
    IF obj.kind = "Atom"
    THEN compile_obj_atom(obj, indent)
    ELSE compile_obj_form(obj, indent)

(***************************************************************************)
(* Functions and the program orchestrator.                                 *)
(***************************************************************************)
Function(name, args, body) == [name |-> name, args |-> args, body |-> body]

DefinitionKeyword == "fun"

is_function_def(form) ==
    /\ form.kind = "Form"
    /\ Len(form.elements) >= 3
    /\ Elem(form.elements, 0).kind = "Atom"
    /\ Elem(form.elements, 0).value = DefinitionKeyword

is_import(form) ==
    /\ form.kind = "Form"
    /\ Len(form.elements) >= 1
    /\ Elem(form.elements, 0).kind = "Atom"
    /\ Elem(form.elements, 0).value = "import"

to_function(form) ==
    Function(Elem(form.elements, 1).value,
             [i \in 1..Len(Elem(form.elements, 2).elements) |->
                 Elem(form.elements, 2).elements[i].value],
             SubSeq(form.elements, 4, Len(form.elements)))

\* The body lines of a function, from the i-th expression on, joined by "\n".
RECURSIVE function_body_from(_, _, _, _)
function_body_from(function, indent, add_return, i) ==
    IF i > Len(function.body)
    THEN Emitted(<<>>)
    ELSE LET return_f == IF add_return /\ i = Len(function.body)
                         THEN <<"return ">>
                         ELSE <<>>
             line == compile_obj(function.body[i], indent)
         IN  IF line.raised # ""
             THEN line
             ELSE Wrap(Spaces((indent + 1) * 4) \o return_f \o line.text
                           \o (IF i < Len(function.body) THEN <<"\n">> ELSE <<>>),
                       function_body_from(function, indent, add_return, i + 1),
                       <<>>)

\* ', '.join(function.args)
RECURSIVE JoinNames(_, _)
JoinNames(names, i) ==
    IF i > Len(names)
    THEN <<>>
    ELSE <<names[i]>> \o (IF i < Len(names) THEN <<", ">> ELSE <<>>)
             \o JoinNames(names, i + 1)

\* The text compile_function returns (its logging of a redefined builtin is
\* no part of what it returns).
compile_function(function, indent) ==
    IF function.name = "main"
    THEN Wrap(<<"if __name__ == '__main__':\n">>,
              function_body_from(function, indent, FALSE, 1), <<"\n", "\n">>)
    ELSE Wrap(<<"def ", function.name, "(">> \o JoinNames(function.args, 1)
                  \o <<"):\n">>,
              function_body_from(function, indent, TRUE, 1), <<"\n">>)

\* What validate and compile_program return: (ok, message) and
\* (ok, output or message, namespace).  A validation message names a node.
NoNode == Atom("")

Message(text, node) == [text |-> text, node |-> node]

NoMessage == Message("", NoNode)

\* The first object of `objects`, from the i-th on, that validate rejects.
RECURSIVE validate_from(_, _)
validate_from(objects, i) ==
    IF i > Len(objects)
    THEN [ok |-> TRUE, message |-> NoMessage]
    ELSE LET obj == objects[i]
         IN  IF obj.kind # "Form"
             THEN [ok |-> FALSE,
                   message |-> Message("Got unexpected object at root-level", obj)]
             ELSE IF ~is_function_def(obj) /\ is_import(obj)
             THEN [ok |-> FALSE,
                   message |-> Message("Expected only function definitions and imports at root-level but got",
                                       obj)]
             ELSE validate_from(objects, i + 1)

validate(objects) == validate_from(objects, 1)

\* output += compile_function(function, 0) + "\n" for the namespace's values
\* from the i-th on.
RECURSIVE compile_functions_from(_, _)
compile_functions_from(namespace, i) ==
    IF i > Len(namespace)
    THEN Emitted(<<>>)
    ELSE LET r == compile_function(namespace[i].value, 0)
         IN  IF r.raised # ""
             THEN r
             ELSE Wrap(r.text \o <<"\n">>,
                       compile_functions_from(namespace, i + 1), <<>>)

\* [form for form in objects if is_function_def(form)] when `defs`, and
\* [form for form in objects if not is_function_def(form)] otherwise, from the
\* i-th object on.
RECURSIVE SelectForms(_, _, _)
SelectForms(objects, defs, i) ==
    IF i > Len(objects)
    THEN <<>>
    ELSE (IF is_function_def(objects[i]) = defs THEN <<objects[i]>> ELSE <<>>)
             \o SelectForms(objects, defs, i + 1)

convert_to_output(repl, namespace, objects) ==
    LET functions == compile_functions_from(namespace, 1)
    IN  IF functions.raised # ""
        THEN functions
        ELSE IF repl
        THEN Wrap(<<"from lisp_core import *\n\n">> \o functions.text,
                  create_body(<<"\n">>, SelectForms(objects, FALSE, 1)),
                  <<"\n\n">>)
        ELSE Emitted(<<"from lisp_core import *\n\n">> \o functions.text)

\* The results of compile_program: a returned (ok, output or message,
\* namespace), or the exception an emitter raised.
Returned(ok, output, message, namespace) ==
    [raised |-> "", ok |-> ok, output |-> output, message |-> message,
     namespace |-> namespace]

Raised(r) ==
    [raised |-> r.raised, ok |-> FALSE, output |-> <<>>,
     message |-> NoMessage, namespace |-> <<>>]

\* {form.elements[1].value: to_function(form) for form in objects if
\* is_function_def(form)}, as the entries in the order of the objects.
LocalDefinitions(objects) ==
    LET defs == SelectForms(objects, TRUE, 1)
    IN  [i \in 1..Len(defs) |->
            [key |-> Elem(defs[i].elements, 1).value, value |-> to_function(defs[i])]]

MergedNamespace(ext, objects) == DictUpdate(ext, LocalDefinitions(objects), 1)

compile_program(objects, ext, repl) ==
    IF objects = <<>>
    THEN Returned(TRUE, <<>>, NoMessage, <<>>)
    ELSE LET validation == validate(objects)
             namespace == MergedNamespace(ext, objects)
         IN  IF ~validation.ok
             THEN Returned(FALSE, <<>>, validation.message, <<>>)
             ELSE IF ~repl /\ ~DictHas(namespace, "main")
             THEN Returned(FALSE, <<>>,
                           Message("Function 'main' is not defined!", NoNode), <<>>)
             ELSE LET output == convert_to_output(repl, namespace, objects)
                  IN  IF output.raised # ""
                      THEN Raised(output)
                      ELSE Returned(TRUE, output.text, NoMessage, namespace)

(***************************************************************************)
(* The arguments the calls are made with.                                  *)
(***************************************************************************)
SeqsUpTo(S, n) == UNION {[1..k -> S] : k \in 0..n}

LatticeTypes == TypesOfDepth(MaxTypeDepth)

NamespaceTypes == TypesOfDepth(MaxNsDepth)

EmptyNamespace == <<>>

Binding(name, t) == IF t = NoType THEN <<>> ELSE <<[key |-> name, value |-> t]>>

\* The variables a and b bound to any type of the lattice, or unbound.
VariableNamespaces ==
    {Binding("a", ta) \o Binding("b", tb) :
        ta \in NamespaceTypes \cup {NoType}, tb \in NamespaceTypes \cup {NoType}}

\* A form's head name bound in the namespace: a user definition, or one that
\* shadows a builtin.
HeadNamespaces ==
    {Binding(h, t) :
        h \in {"list", "first", "rest", "if", "f"},
        t \in {PrimitiveType("Number"), ListType(PrimitiveType("Number"))}}

Namespaces == VariableNamespaces \cup HeadNamespaces

Call(name, args) == Form(<<Atom(name)>> \o args)

AtomNodes ==
    {Atom(v) : v \in {"a", "b", "1", "2.5", "\"a\"", "\"\"", "true", "false", "zz"}}
        \cup {NumAtom("1"), RawAtom}

ListForms ==
    {Call("list", args) :
        args \in SeqsUpTo({Atom("a"), Atom("b"), Atom("1"), Call("list", <<>>)}, MaxArgs)}

AccessorArguments ==
    {Atom("a"), Atom("b"), Atom("1"), Atom("zz"), Form(<<>>),
     Call("list", <<>>), Call("list", <<Atom("1")>>),
     Call("list", <<Atom("1"), Atom("2"), Atom("3")>>),
     Call("list", <<Atom("a")>>),
     Call("rest", <<Call("list", <<Atom("1")>>)>>),
     Form(<<Call("list", <<>>), Atom("1")>>)}

AccessorForms ==
    {Call(h, args) : h \in {"first", "rest"}, args \in SeqsUpTo(AccessorArguments, 1)}
        \cup {Call(h, <<Atom("a"), Atom("b")>>) : h \in {"first", "rest"}}

IfConditions == {Atom("true"), Atom("a"), Call("<", <<Atom("1"), Atom("2")>>)}

IfBranches == {Atom("a"), Atom("b"), Atom("1"), Atom("2"), Atom("\"a\""), Atom("\"b\"")}

IfForms ==
    {Call("if", <<c, t, f>>) : c \in IfConditions, t \in IfBranches, f \in IfBranches}
        \cup {Call("if", args) : args \in SeqsUpTo({Atom("true"), Atom("a")}, 2)}

AppendForms ==
    {Call("++", <<e, l>>) : e \in {Atom("a"), Atom("1")},
                           l \in {Atom("b"), Atom("1"), Call("list", <<>>)}}
        \cup {Call("++", args) : args \in SeqsUpTo({Atom("a")}, 1)}

OtherForms ==
    {Form(<<>>),
     Form(<<Call("list", <<>>), Atom("1")>>),
     Form(<<NumAtom("1"), Atom("1")>>),
     Call("<", <<Atom("1"), Atom("2")>>),
     Call("+", <<Atom("1"), Atom("2")>>),
     Call("print", <<Atom("a")>>),
     Call("f", <<Atom("1")>>),
     Call("zz", <<Atom("1")>>)}

InferNodes ==
    AtomNodes \cup ListForms \cup AccessorForms \cup IfForms \cup AppendForms
        \cup OtherForms

\* Emission: every head of the builtin table and a user function, over up to
\* MaxArgs + 1 arguments: a name, a form that emits (and serves as a lambda's
\* parameter group), and a form whose emission raises.
EmitArguments ==
    {Atom("x"), Call("x", <<Atom("y")>>), Call("not", <<Atom("1"), Atom("2")>>)}

EmitNodes ==
    {Call(h, args) : h \in builtin_functions \cup {"f"},
                     args \in SeqsUpTo(EmitArguments, MaxArgs + 1)}
        \cup {Atom("true"), Atom("false"), Atom("x"), Form(<<>>),
              Form(<<Call("f", <<>>), Atom("x")>>)}

\* Programs: the top-level objects, the external functions and the mode.
Definition(name, params, body) ==
    Form(<<Atom(DefinitionKeyword), Atom(name), Form(params)>> \o body)

TopLevelObjects ==
    {Atom("x"),
     Call("import", <<Atom("x")>>),
     Definition("main", <<>>, <<Call("helper", <<Atom("1"), Atom("2")>>)>>),
     Definition("helper", <<Atom("a"), Atom("b")>>, <<Call("+", <<Atom("a"), Atom("b")>>)>>),
     Definition("helper", <<>>, <<Call("not", <<Atom("1"), Atom("2")>>)>>),
     Call("print", <<Atom("1")>>),
     Call("not", <<Atom("1"), Atom("2")>>)}

Programs == SeqsUpTo(TopLevelObjects, MaxProgram)

ExternalFunctions ==
    {<<>>,
     <<[key |-> "main", value |-> Function("main", <<>>, <<Call("print", <<Atom("1")>>)>>)]>>,
     <<[key |-> "helper", value |-> Function("helper", <<Atom("x")>>, <<Atom("x")>>)]>>}

(***************************************************************************)
(* The state machine: one call, drawn in Init and applied by its action.   *)
(***************************************************************************)
VARIABLES pc, call, t1, t2, node, namespace, objects, ext_funcs, is_repl, result

vars == <<pc, call, t1, t2, node, namespace, objects, ext_funcs, is_repl, result>>

Init ==
    /\ pc = "ready"
    /\ result = <<>>
    /\ \/ /\ call = "infer_element_types"
          /\ t1 \in LatticeTypes
          /\ t2 \in LatticeTypes
          /\ node = NoNode /\ namespace = EmptyNamespace
          /\ objects = <<>> /\ ext_funcs = <<>> /\ is_repl = FALSE
       \/ /\ call = "infer_type"
          /\ node \in InferNodes
          /\ namespace \in Namespaces
          /\ t1 = NoType /\ t2 = NoType
          /\ objects = <<>> /\ ext_funcs = <<>> /\ is_repl = FALSE
       \/ /\ call = "compile_obj"
          /\ node \in EmitNodes
          /\ namespace = EmptyNamespace
          /\ t1 = NoType /\ t2 = NoType
          /\ objects = <<>> /\ ext_funcs = <<>> /\ is_repl = FALSE
       \/ /\ call = "compile_program"
          /\ objects \in Programs
          /\ ext_funcs \in ExternalFunctions
          /\ is_repl \in BOOLEAN
          /\ node = NoNode /\ namespace = EmptyNamespace
          /\ t1 = NoType /\ t2 = NoType

Return(value) ==
    /\ pc' = "done"
    /\ result' = value
    /\ UNCHANGED <<call, t1, t2, node, namespace, objects, ext_funcs, is_repl>>

CallInferElementTypes ==
    /\ pc = "ready" /\ call = "infer_element_types"
    /\ Return(infer_element_types(t1, t2))

CallInferType ==
    /\ pc = "ready" /\ call = "infer_type"
    /\ Return(infer_type(node, namespace))

CallCompileObj ==
    /\ pc = "ready" /\ call = "compile_obj"
    /\ Return(compile_obj(node, 0))

CallCompileProgram ==
    /\ pc = "ready" /\ call = "compile_program"
    /\ Return(compile_program(objects, ext_funcs, is_repl))

Next ==
    \/ CallInferElementTypes
    \/ CallInferType
    \/ CallCompileObj
    \/ CallCompileProgram

Spec == Init /\ [][Next]_vars

(***************************************************************************)
(* The claims.                                                             *)
(***************************************************************************)
Done(name) == pc = "done" /\ call = name

Number == PrimitiveType("Number")

\* A top-level node the specification rejects: not a Form, or a Form that is
\* neither a function definition nor an import.
NeitherDefinitionNorImport(obj) ==
    obj.kind # "Form" \/ (~is_function_def(obj) /\ ~is_import(obj))

ValidationFailed ==
    /\ result.raised = "" /\ ~result.ok
    /\ result.message.text \in
           {"Got unexpected object at root-level",
            "Expected only function definitions and imports at root-level but got"}

\* C1: for a non-empty program, compile_program fails validation, with a
\* message naming an offending node, if and only if some top-level node is not
\* a Form or is a Form that is neither a function definition nor an import.
C1_ValidationRejectsOnlyOtherNodes ==
    (Done("compile_program") /\ objects # <<>>) =>
        /\ ValidationFailed <=>
               \E i \in 1..Len(objects) : NeitherDefinitionNorImport(objects[i])
        /\ ValidationFailed =>
               \E i \in 1..Len(objects) :
                   /\ NeitherDefinitionNorImport(objects[i])
                   /\ result.message.node = objects[i]

MainNotDefined ==
    /\ result.raised = "" /\ ~result.ok
    /\ result.message = Message("Function 'main' is not defined!", NoNode)
    /\ result.output = <<>>
    /\ result.namespace = <<>>

\* C2: for a non-empty program that passes validation, the non-interactive
\* call fails with the 'main is not defined' message and an empty namespace
\* exactly when main is absent from the merged namespace; the interactive call
\* returns success with the merged namespace.
C2_EntryPointRequirement ==
    (Done("compile_program") /\ objects # <<>> /\ validate(objects).ok) =>
        LET merged == MergedNamespace(ext_funcs, objects)
        IN  IF ~is_repl
            THEN MainNotDefined <=> ~DictHas(merged, "main")
            ELSE /\ result.raised = ""
                 /\ result.ok
                 /\ result.namespace = merged

\* The element types of a List and a PossibleEmptyList given in either order.
ListAndPossiblyEmpty(x, y) == is_list(x) /\ is_possibly_empty(y)

\* C3: unifying List(a) with PossibleEmptyList(b), in either order, succeeds
\* exactly when unify(a, b) succeeds and then returns
\* PossibleEmptyList(unify(a, b)); List(a) with EmptyList returns
\* PossibleEmptyList(a).
C3_ListWithPossiblyEmptyUnifiesElements ==
    Done("infer_element_types") =>
        /\ (ListAndPossiblyEmpty(t1, t2) \/ ListAndPossiblyEmpty(t2, t1)) =>
               LET u == infer_element_types(element(t1), element(t2))
               IN  /\ result.ok <=> u.ok
                   /\ result.ok => result.type = PossibleEmptyList(u.type)
        /\ (is_list(t1) /\ is_empty_list(t2)) =>
               result = Ok(PossibleEmptyList(element(t1)))
        /\ (is_empty_list(t1) /\ is_list(t2)) =>
               result = Ok(PossibleEmptyList(element(t2)))

\* C4: unification is symmetric: the two argument orders both fail or both
\* succeed with equal types; and a type unified with an equal type yields
\* itself.
C4_UnificationSymmetric ==
    Done("infer_element_types") =>
        LET swapped == infer_element_types(t2, t1)
        IN  /\ result.raised = "" /\ result.pair
            /\ result.ok <=> swapped.ok
            /\ result.ok => result.type = swapped.type
            /\ t1 = t2 => result = Ok(t1)

C4_Witness ==
    /\ Done("infer_element_types")
    /\ t1 = EmptyList
    /\ t2 = ListType(ListType(Number))
    /\ result = Ok(PossibleEmptyList(ListType(Number)))

\* An `if` form of three arguments whose head is the builtin, and the results
\* of inferring its condition and its branches.
IsIfForm ==
    /\ node.kind = "Form"
    /\ Len(node.elements) = 4
    /\ node.elements[1] = Atom("if")
    /\ ~DictHas(namespace, "if")

Inferred(i) == infer_type(Elem(node.elements, i), namespace)

InfersOk(r) == r.raised = "" /\ r.pair /\ r.ok

\* The result type the specification gives two branch types, NoType when it
\* gives an error.
IfBranchType(tt, tf) ==
    IF tt = tf
    THEN tt
    ELSE IF is_list(tt) /\ (tf = EmptyList \/ tf = PossibleEmptyList(element(tt)))
    THEN PossibleEmptyList(element(tt))
    ELSE IF is_list(tf) /\ (tt = EmptyList \/ tt = PossibleEmptyList(element(tf)))
    THEN PossibleEmptyList(element(tf))
    ELSE NoType

\* C5: an `if` whose condition infers to Bool and whose branches both infer:
\* equal branch types give that type; List(T) against EmptyList or
\* PossibleEmptyList(T), in either order, gives PossibleEmptyList(T); every
\* other pair of branch types is an error naming both.
C5_IfBranchTypes ==
    (Done("infer_type") /\ IsIfForm /\ InfersOk(Inferred(1))
        /\ Inferred(1).type = PrimitiveType("Bool")
        /\ InfersOk(Inferred(2)) /\ InfersOk(Inferred(3))) =>
        LET tt == Inferred(2).type
            tf == Inferred(3).type
        IN  IF IfBranchType(tt, tf) # NoType
            THEN result = Ok(IfBranchType(tt, tf))
            ELSE /\ result.raised = "" /\ result.pair /\ ~result.ok
                 /\ result.msg.a = tt
                 /\ result.msg.b = tf

\* C6: with an empty namespace (if (< 1 2) 1 2) infers to Number and
\* (if true "a" "b") infers to String.
C6_IfOverComparisonTypeChecks ==
    (Done("infer_type") /\ namespace = EmptyNamespace) =>
        /\ node = Call("if", <<Call("<", <<Atom("1"), Atom("2")>>), Atom("1"), Atom("2")>>)
               => result = Ok(Number)
        /\ node = Call("if", <<Atom("true"), Atom("\"a\""), Atom("\"b\"")>>)
               => result = Ok(PrimitiveType("String"))

\* A `list` form whose head is the builtin.
IsListForm ==
    /\ node.kind = "Form"
    /\ Len(node.elements) >= 1
    /\ node.elements[1] = Atom("list")
    /\ ~DictHas(namespace, "list")

\* C7: with `list` not bound in the namespace, (list) infers to EmptyList,
\* and (list a1 ... an), n >= 1, whose arguments all infer to the same type T
\* infers to List(T).
C7_ListOfOneType ==
    (Done("infer_type") /\ IsListForm) =>
        /\ Len(node.elements) = 1 => result = Ok(EmptyList)
        /\ (/\ Len(node.elements) > 1
            /\ \A i \in 1..(Len(node.elements) - 1) :
                   /\ InfersOk(Inferred(i))
                   /\ Inferred(i).type = Inferred(1).type)
               => result = Ok(ListType(Inferred(1).type))

C7_Witness ==
    /\ Done("infer_type")
    /\ node = Call("list", <<Atom("a"), Atom("b"), Atom("a")>>)
    /\ DictHas(namespace, "a") /\ DictHas(namespace, "b")
    /\ DictGet(namespace, "a") = PossibleEmptyList(Number)
    /\ DictGet(namespace, "b") = PossibleEmptyList(Number)
    /\ result = Ok(ListType(PossibleEmptyList(Number)))

\* A `first` or `rest` form with an argument that infers successfully.
IsAccessorForm(name) ==
    /\ node.kind = "Form"
    /\ Len(node.elements) >= 2
    /\ node.elements[1] = Atom(name)
    /\ InfersOk(Inferred(1))

\* What the claim gives (first e) and (rest e) for e of type L.
AccessorResult(name) ==
    LET L == Inferred(1).type
    IN  IF is_list(L)
        THEN result = Ok(IF name = "first"
                         THEN element(L)
                         ELSE PossibleEmptyList(element(L)))
        ELSE /\ result.raised = "" /\ result.pair /\ ~result.ok
             /\ result.msg.a = L

\* C8 as stated: for every argument e that infers to a type L, (first e) and
\* (rest e) succeed if and only if L is List(T), returning T and
\* PossibleEmptyList(T); otherwise they return an error.
C8_AccessorsNeedNonEmptyList ==
    Done("infer_type") =>
        \A name \in {"first", "rest"} :
            IsAccessorForm(name) => AccessorResult(name)

\* C8 as amended: the same, for `first` (`rest`) not bound in the namespace.
C8_AccessorsNeedNonEmptyListUnlessBound ==
    Done("infer_type") =>
        \A name \in {"first", "rest"} :
            (IsAccessorForm(name) /\ ~DictHas(namespace, name))
                => AccessorResult(name)

C8_Witness ==
    /\ Done("infer_type")
    /\ node = Call("rest", <<Call("list", <<Atom("1")>>)>>)
    /\ namespace = EmptyNamespace
    /\ result = Ok(PossibleEmptyList(Number))

\* The builtins the specification gives a fixed arity.
FixedArity ==
    [op \in {"not", "first", "rest", "<", ">", "<=", ">=", "=", "++", "map",
             "filter", "lambda", "if"} |->
        IF op \in {"not", "first", "rest"} THEN 1
        ELSE IF op = "if" THEN 3
        ELSE 2]

\* C9: emitting a builtin of fixed arity with another number of arguments
\* fails with a message naming the operator, the expected and the actual
\* count, and emits no text; with the expected number of arguments, each of
\* which emits, it succeeds.
C9_ArityEnforced ==
    (/\ Done("compile_obj")
     /\ node.kind = "Form"
     /\ Len(node.elements) >= 1
     /\ node.elements[1].kind = "Atom"
     /\ node.elements[1].value \in DOMAIN FixedArity) =>
        LET op == node.elements[1].value
            actual == Len(node.elements) - 1
        IN  IF actual # FixedArity[op]
            THEN result = RaiseArity(op, FixedArity[op], actual)
            ELSE (\A i \in 1..actual :
                      compile_obj(Elem(node.elements, i), 0).raised = "")
                     => result.raised = ""

\* C10: infer_type of an Atom or a Form never raises and always returns a
\* pair; a failure carries a message (or, for an Atom whose value is neither
\* text nor a number, the Unrecognized type).
C10_InferTypeNeverRaises ==
    Done("infer_type") =>
        /\ result.raised = ""
        /\ result.pair
        /\ ~result.ok => (result.msg # NoMsg \/ result.type = UnrecognizedType)

====
